---- MODULE Spec2Model ----
(***************************************************************************)
(* A model of the audio/video synchronisation logic of src/app/player.tsx  *)
(* (the second component of the file, lines 342-727) and of the export     *)
(* pipeline of src/app/lib/ffmpeg-export.ts.                               *)
(*                                                                         *)
(* Units.  Times and offsets are integers counting 1e-4 s (0.15 s is 1500, *)
(* the 0.005 s offset step is 50).  Rates are integers counting 1e-4       *)
(* (1.0 is 10000, the 0.05 rate step is 500).  A playback rate held by a   *)
(* media element is kept multiplied by NudgeScale, so that the product     *)
(* clamp(1.0 - diff * 0.25, 0.95, 1.05) * playbackRate is an integer.      *)
(*                                                                         *)
(* React.  A state setter called from a handler, the render it causes and  *)
(* the effects of that render are one step: React 18 flushes the updates   *)
(* of a discrete event (click, change, play, pause, seeked, ended) before  *)
(* the browser runs the next task.  An await inside an async handler ends  *)
(* the step: the handler goes on later with the values of the render that  *)
(* created it (its closure), which the records playCall and sfvCall keep.  *)
(***************************************************************************)
EXTENDS Integers, Sequences, FiniteSets, TLC

\* ---------------------------------------------------------------- constants
DriftThreshold == 1500
NudgeScale == 40000
NudgeMin == 38000
NudgeMax == 42000
OffsetMin == -10000
OffsetMax == 10000
OffsetStep == 50
RateMin == 1000
RateMax == 20000
RateStep == 500
RateOne == 10000
LogCapacity == 200
LogTail == 25

\* NaN stands for every value Number.isFinite rejects that the program meets
\* (NaN, undefined, null): a.duration of an element without metadata, an absent
\* trim bound, a non-numeric offset or rate.  Infinity is the bound that
\* `a.duration || Infinity` puts in.
NaN == -2000000000
Infinity == 1000000000

\* ------------------------------------------------------------------- bounds
MaxDuration == 1800
MaxProbe == 25000
MaxCalls == 3
MaxSlots == 2
MaxLogLines == 220

Durations == {0, MaxDuration}
AdvanceSteps == {DriftThreshold, MaxDuration}
ScrubTargets == {0, MaxDuration}
OffsetValues == {-10000, -9950, 0, 1500}
RateValues == {10000, 10500}

\* ---------------------------------------------------------------- variables
VARIABLES
    mounted,        \* the Player component is mounted
    srcUrl,         \* a file has been picked (srcUrl is not null)
    duration,       \* a.duration (the same source feeds both elements)
    videoTime,      \* v.currentTime
    audioTime,      \* a.currentTime
    vPaused,        \* v.paused
    aPaused,        \* a.paused
    vRate,          \* v.playbackRate * NudgeScale
    aRate,          \* a.playbackRate * NudgeScale
    offsetSec,      \* React state
    playbackRate,   \* React state
    playing,        \* React state
    rafRef,         \* a tick callback is scheduled (rafRef.current is a handle)
    dragging,       \* the user holds the offset slider (no code reads this)
    playCall,       \* the invocation of play() in flight
    sfvCall,        \* the invocation of startFromVideo() in flight
    last,           \* what the last step did (the seeks it issued)
    sourceFile,     \* React state: the picked File, NoFile for null
    ffmpegReady,    \* React state: the ffmpeg.js script has loaded
    exporting,      \* React state: the busy flag of onExport
    exportProgress, \* React state
    exportError,    \* React state: "none" for null
    runtime,        \* window.FFmpegWASM.FFmpeg is defined
    ffmpegInstance, \* module state: the loaded engine (FALSE for null)
    ffmpegLoading,  \* module state: the promise of the load ("none" for null)
    loadCount,      \* how many times ffmpeg.load() has been invoked
    exportCache,    \* module state: Map from cache key to Blob
    calls,          \* the invocations of exportVideoWithOffset, by slot
    callsMade,      \* how many invocations there have been
    succeeded,      \* the non-trivial invocations that returned a Blob
    progressOwner,  \* the invocation whose onProgress the engine's handler calls
    delivered,      \* the last progress event and the callback it went to
    logBuffer,      \* module state: the engine's log lines
    probe           \* a pure function applied to an input, and its result

mediaVars == <<mounted, srcUrl, duration, videoTime, audioTime, vPaused, aPaused,
               vRate, aRate, offsetSec, playbackRate, playing, rafRef, dragging,
               playCall, sfvCall>>

syncVars == <<mediaVars, last>>

uiVars == <<ffmpegReady, exporting, exportProgress, exportError>>

\* what the handlers registered on the engine write
engineVars == <<progressOwner, delivered, logBuffer>>

libVars == <<runtime, ffmpegInstance, ffmpegLoading, loadCount, exportCache, calls,
             callsMade, succeeded, engineVars>>

exportVars == <<sourceFile, uiVars, libVars, probe>>

vars == <<syncVars, exportVars>>

\* ------------------------------------------------------------------ helpers
Min(a, b) == IF a < b THEN a ELSE b
Max(a, b) == IF a > b THEN a ELSE b
Abs(x) == IF x < 0 THEN -x ELSE x

\* clamp(x, lo, hi) = Math.max(lo, Math.min(hi, x))
clamp(x, lo, hi) == Max(lo, Min(hi, x))

\* a.duration || Infinity: NaN and 0 are both falsy
durationOrInfinity(d) == IF d = NaN \/ d = 0 THEN Infinity ELSE d

\* clamp(v.currentTime - offsetSec, 0, a.duration || Infinity)
targetAudioTime(vt, off, d) == clamp(vt - off, 0, durationOrInfinity(d))

\* the value a media element holds for a rate r written to playbackRate
ElemRate(r) == r * NudgeScale

\* what the element keeps of an accepted position write
ElementPosition(t, d) == IF d = NaN THEN Max(0, t) ELSE clamp(t, 0, d)

IdleCall == [pc |-> "idle", offsetSec |-> 0, playbackRate |-> RateOne]

NoSeeks == <<>>
Did(op) == [op |-> op, seeks |-> NoSeeks]

\* safeSetCurrentTime(a, t): the write is accepted (ok) or throws and is swallowed
\* A seek as issued: its target, and v.currentTime, the offsetSec state and
\* a.duration at the moment it is issued.
SeekRecord(by, t, vt, off, ok) ==
    [by |-> by, target |-> t, videoTime |-> vt, offsetSec |-> off,
     duration |-> duration, ok |-> ok]

\* (variant: a rejected write is repeated until the element takes it)
safeSetCurrentTimeRetried(t, ok) == audioTime' = ElementPosition(t, duration)

\* (variant: the catch block falls back to the start of the timeline)
safeSetCurrentTimeFallback(t, ok) ==
    audioTime' = IF ok THEN ElementPosition(t, duration) ELSE 0

safeSetCurrentTime(t, ok) ==
    audioTime' = IF ok THEN ElementPosition(t, duration) ELSE audioTime

\* a pending play() promise is rejected when its element is paused or reloaded
AbortPending(call) == IF call.pc \in {"aPlay", "vPlay"} THEN IdleCall ELSE call

\* ------------------------------------------------------ export: pure functions
\* Number.isFinite(x)
isFinite(x) == x # NaN

\* clampRate(rate)
clampRate(rate) == IF ~isFinite(rate) \/ rate <= 0 THEN RateOne ELSE rate

\* An audio filter of a filter chain.  "atempo=0.5" and "atempo=2.0" are the
\* tempos 500 and 2000 (thousandths) as written by the loops; the operation
\* written with toFixed(3) is marked fixed.
Atempo(tempo, fixed) == [op |-> "atempo", tempo |-> tempo, fixed |-> fixed]
\* "adelay=ms|ms": one delay per channel
Adelay(ms) == [op |-> "adelay", left |-> ms, right |-> ms]
\* "atrim=start=s" (end NaN) and "atrim=start=s:end=e"
Atrim(start, end) == [op |-> "atrim", start |-> start, end |-> end]
\* "asetpts=PTS-STARTPTS"
Asetpts == [op |-> "asetpts"]

\* (variant: the last operation is written with toFixed(2))
toFixedTwoDigits(num, den, up) ==
    LET q == num \div (100 * den)
        rem == num % (100 * den)
    IN 10 * (IF 2 * rem > 100 * den \/ (2 * rem = 100 * den /\ up) THEN q + 1 ELSE q)

\* r.toFixed(3) in thousandths, for r = num/den counted in 1e-4.  At a tie in
\* decimal the digit depends on whether the double nearest to r lies above it
\* (up) or below it.
toFixed3(num, den, up) ==
    LET q == num \div (10 * den)
        rem == num % (10 * den)
    IN IF 2 * rem > 10 * den \/ (2 * rem = 10 * den /\ up) THEN q + 1 ELSE q

\* (variant: the loop gives up after two rounds)
whileBelowHalfTwice(st) ==
    IF st.num * 2 < 5000 * st.den
    THEN [filters |-> st.filters \o <<Atempo(500, FALSE), Atempo(500, FALSE)>>,
          num |-> st.num * 4, den |-> st.den]
    ELSE IF st.num < 5000 * st.den
         THEN [filters |-> Append(st.filters, Atempo(500, FALSE)),
               num |-> st.num * 2, den |-> st.den]
         ELSE st

\* while (r < 0.5) { filters.push("atempo=0.5"); r /= 0.5; }
RECURSIVE whileBelowHalf(_)
whileBelowHalf(st) ==
    IF st.num < 5000 * st.den
    THEN whileBelowHalf([filters |-> Append(st.filters, Atempo(500, FALSE)),
                         num |-> st.num * 2, den |-> st.den])
    ELSE st

\* while (r > 2.0) { filters.push("atempo=2.0"); r /= 2.0; }
RECURSIVE whileAboveTwo(_)
whileAboveTwo(st) ==
    IF st.num > 20000 * st.den
    THEN whileAboveTwo([filters |-> Append(st.filters, Atempo(2000, FALSE)),
                        num |-> st.num, den |-> st.den * 2])
    ELSE st

\* buildAtempoFilters(rate); r is the fraction num/den
buildAtempoFilters(rate, up) ==
    LET st == whileAboveTwo(whileBelowHalf([filters |-> <<>>, num |-> rate, den |-> 1]))
    IN IF Abs(st.num - RateOne * st.den) > st.den
       THEN Append(st.filters, Atempo(toFixed3(st.num, st.den, up), TRUE))
       ELSE st.filters

\* (variant: Math.trunc in place of Math.round)
truncMs(offset, up) == offset \div 10

\* Math.round(offset * 1000) for offset > 0; at a tie the product of the
\* doubles lies above it (up) or below it
roundMs(offset, up) ==
    IF offset % 10 > 5 \/ (offset % 10 = 5 /\ up)
    THEN offset \div 10 + 1
    ELSE offset \div 10

\* the offset filters of the audio-only path (it runs for offsets beyond 1e-6)
audioOnlyOffsetFilters(offset, up) ==
    IF offset > 0
    THEN <<Adelay(roundMs(offset, up))>>
    ELSE <<Atrim(Abs(offset), NaN), Asetpts>>

\* the offset filters of the full re-encode
fullOffsetFilters(offset, up) ==
    IF offset > 0
    THEN <<Adelay(roundMs(offset, up))>>
    ELSE IF offset < 0
         THEN <<Atrim(Abs(offset), NaN), Asetpts>>
         ELSE <<>>

\* ------------------------------------------------------------ export: requests
File(name, size, lastModified) ==
    [name |-> name, size |-> size, lastModified |-> lastModified]

\* ExportOptions without onProgress
Request(file, rate, offset, trimStartSec, trimEndSec) ==
    [file |-> file, playbackRate |-> rate, offsetSec |-> offset,
     trimStartSec |-> trimStartSec, trimEndSec |-> trimEndSec]

NoFile == File(0, 0, 0)
File1 == File(1, 1, 1)
NoRequest == Request(NoFile, NaN, NaN, NaN, NaN)

\* the values exportVideoWithOffset works with
exportRate(req) == clampRate(req.playbackRate)
exportOffset(req) == IF isFinite(req.offsetSec) THEN req.offsetSec ELSE 0
\* (variant: the bounds are not compared)
hasTrimAnyOrder(req) ==
    /\ isFinite(req.trimStartSec)
    /\ isFinite(req.trimEndSec)

\* both bounds are numbers and start < end
hasTrim(req) ==
    /\ isFinite(req.trimStartSec)
    /\ isFinite(req.trimEndSec)
    /\ req.trimStartSec < req.trimEndSec

\* without a trim both bounds are written as 0
trimStart(req) == IF hasTrim(req) THEN req.trimStartSec ELSE 0
trimEnd(req) == IF hasTrim(req) THEN req.trimEndSec ELSE 0

\* Math.abs(x) < 1e-6 and Math.abs(x) > 1e-6, x counted in 1e-4
nearZero(x) == Abs(x) * 100 < 1
aboveEps(x) == Abs(x) * 100 > 1

\* (variant: the offset test of the audio-only path in place of the trivial one)
isTrivialOffsetInverted(req) ==
    /\ nearZero(exportRate(req) - RateOne)
    /\ aboveEps(exportOffset(req))
    /\ ~hasTrim(req)

\* nothing to convert: the file itself is returned
isTrivial(req) ==
    /\ nearZero(exportRate(req) - RateOne)
    /\ nearZero(exportOffset(req))
    /\ ~hasTrim(req)

\* offset only: the video stream is copied
audioOnlyPath(req) ==
    /\ nearZero(exportRate(req) - RateOne)
    /\ aboveEps(exportOffset(req))
    /\ ~hasTrim(req)

\* (variant: a key without the trim bounds)
cacheKeyWithoutTrim(req) ==
    <<req.file.name, req.file.size, req.file.lastModified, exportRate(req),
      exportOffset(req), 0, 0>>

\* `${file.name}:${file.size}:${file.lastModified}:r=..:o=..:ts=..:te=..`
cacheKey(req) ==
    <<req.file.name, req.file.size, req.file.lastModified, exportRate(req),
      exportOffset(req), trimStart(req), trimEnd(req)>>

\* -------------------------------------------------------------- export: calls
Slots == 1..MaxSlots

\* what an invocation returns or throws
NoResult == [kind |-> "none"]
FileResult(file) == [kind |-> "file", file |-> file]
BlobResult(blob) == [kind |-> "blob", blob |-> blob]
ErrorResult(error) == [kind |-> "error", error |-> error]

\* An invocation of exportVideoWithOffset: where it stands, its options, how it
\* is answered (route), the engine operations it has issued so far (ops) and
\* the invocations that had succeeded when it began (prior).
NoCall ==
    [pc |-> "idle", req |-> NoRequest, serial |-> 0, route |-> "none",
     path |-> "none", result |-> NoResult, ops |-> <<>>, prior |-> {}]

\* load, writeFile, readFile, deleteFile(inputName), deleteFile(outputName)
EngineOp(op) == [op |-> op]

\* the video filter chain of the full re-encode
videoFilters(req) ==
    (IF hasTrim(req)
     THEN <<[op |-> "trim", start |-> trimStart(req), end |-> trimEnd(req)],
            [op |-> "setpts"]>>
     ELSE <<>>)
    \o <<[op |-> "setpts", rate |-> exportRate(req)], [op |-> "scale720p"],
         [op |-> "fps"]>>

\* the audio filter chain of the full re-encode
fullAudioFilters(req, upMs, upFix) ==
    LET chain == (IF hasTrim(req)
                  THEN <<Atrim(trimStart(req), trimEnd(req)), Asetpts>>
                  ELSE <<>>)
                 \o fullOffsetFilters(exportOffset(req), upMs)
                 \o buildAtempoFilters(exportRate(req), upFix)
    IN IF chain = <<>> THEN <<[op |-> "anull"]>> ELSE chain

\* exec of the audio-only path: -c:v copy -c:a aac
ExecAudioOnly(req, upMs) ==
    [op |-> "exec", path |-> "audioOnly", vcodec |-> "copy", acodec |-> "aac",
     video |-> <<>>, audio |-> audioOnlyOffsetFilters(exportOffset(req), upMs)]

\* exec of the full re-encode: -c:v libx264 -c:a aac
ExecFull(req, upMs, upFix) ==
    [op |-> "exec", path |-> "full", vcodec |-> "libx264", acodec |-> "aac",
     video |-> videoFilters(req), audio |-> fullAudioFilters(req, upMs, upFix)]

\* the call goes on to the full re-encode
startFull(call, upMs, upFix) ==
    [call EXCEPT !.pc = "exec", !.path = "full",
                 !.ops = Append(@, ExecFull(call.req, upMs, upFix))]

\* the call ends: it returns or throws
settle(call, result) == [call EXCEPT !.pc = "settled", !.result = result]

\* a progress event: the invocation whose callback received it (to), the
\* invocation whose exec emitted it (during), and its value in 1e-4
Delivery(to, during, value) == [to |-> to, during |-> during, value |-> value]
NoDelivery == Delivery(0, 0, 0)

\* logBuffer holds the lines dropped + 1 .. dropped + len of those logged since
\* it was last emptied
EmptyLog == [dropped |-> 0, len |-> 0]

\* logBuffer.push(line); if (logBuffer.length > 200) logBuffer.shift();
pushLine(buf) ==
    IF buf.len + 1 > LogCapacity
    THEN [dropped |-> buf.dropped + 1, len |-> buf.len]
    ELSE [dropped |-> buf.dropped, len |-> buf.len + 1]

\* n log events in a row, on a buffer of at most LogCapacity lines: the
\* first half of them, then the rest
RECURSIVE pushLines(_, _)
pushLines(buf, n) ==
    IF n = 0 \/ buf.len > LogCapacity
    THEN buf
    ELSE IF n = 1
         THEN pushLine(buf)
         ELSE pushLines(pushLines(buf, n \div 2), n - n \div 2)

\* (variant: the first lines of the buffer, slice(0, 25))
logHead(buf) == [first |-> buf.dropped + 1, count |-> Min(buf.len, LogTail)]

\* logBuffer.slice(-25): count lines, the first of them numbered first
logTail(buf) ==
    [first |-> buf.dropped + buf.len - Min(buf.len, LogTail) + 1,
     count |-> Min(buf.len, LogTail)]

\* the error of the full re-encode: its message carries the lines of detail
ExecErrorResult(detail) == [kind |-> "error", error |-> "exec", detail |-> detail]

\* ---------------------------------------------------------- baseline states
NoProbe(x) == [fn |-> "none", arg |-> x, out |-> <<>>]

UiIdle ==
    /\ sourceFile = NoFile
    /\ ffmpegReady = FALSE
    /\ exporting = FALSE
    /\ exportProgress = 0
    /\ exportError = "none"

LibIdle ==
    /\ ffmpegInstance = FALSE
    /\ ffmpegLoading = "none"
    /\ loadCount = 0
    /\ exportCache = << >>
    /\ calls = [c \in Slots |-> NoCall]
    /\ callsMade = 0
    /\ succeeded = {}
    /\ progressOwner = 0
    /\ delivered = NoDelivery
    /\ logBuffer = EmptyLog

ExportIdle ==
    /\ UiIdle
    /\ LibIdle
    /\ runtime = FALSE
    /\ probe = NoProbe(0)

\* --------------------------------------------------------------------- Init
\* The component after its first render and effects: no file, nothing playing,
\* both elements at the rate the [playbackRate] effect wrote.
SyncInit ==
    /\ mounted = TRUE
    /\ srcUrl = FALSE
    /\ duration = NaN
    /\ videoTime = 0
    /\ audioTime = 0
    /\ vPaused = TRUE
    /\ aPaused = TRUE
    /\ vRate = ElemRate(RateOne)
    /\ aRate = ElemRate(RateOne)
    /\ offsetSec = 0
    /\ playbackRate = RateOne
    /\ playing = FALSE
    /\ rafRef = FALSE
    /\ dragging = FALSE
    /\ playCall = IdleCall
    /\ sfvCall = IdleCall
    /\ last = Did("init")

\* ------------------------------------------------------------ file and media
\* onPickFile(file) with a file, the render of setSrcUrl/setPlaying(false) and
\* its effects: the [srcUrl] effect sets both src and zeroes both positions, the
\* loop effect cancels the scheduled tick.  Loading a new source pauses the
\* element, forgets its duration and puts its rate back to the default.
onPickFile(file) ==
    /\ mounted
    /\ srcUrl' = TRUE
    /\ playing' = FALSE
    /\ rafRef' = FALSE
    /\ duration' = NaN
    /\ videoTime' = 0
    /\ audioTime' = 0
    /\ vPaused' = TRUE
    /\ aPaused' = TRUE
    /\ vRate' = ElemRate(RateOne)
    /\ aRate' = ElemRate(RateOne)
    /\ playCall' = AbortPending(playCall)
    /\ sfvCall' = AbortPending(sfvCall)
    /\ last' = Did("onPickFile")
    /\ UNCHANGED <<mounted, offsetSec, playbackRate, dragging>>
    /\ sourceFile' = file
    /\ UNCHANGED <<uiVars, libVars, probe>>

\* the element learns the duration of its source
LoadedMetadata(d) ==
    /\ srcUrl
    /\ duration = NaN
    /\ duration' = d
    /\ audioTime' = ElementPosition(audioTime, d)
    /\ last' = Did("loadedmetadata")
    /\ UNCHANGED <<mounted, srcUrl, videoTime, vPaused, aPaused, vRate,
                   aRate, offsetSec, playbackRate, playing, rafRef, dragging,
                   playCall, sfvCall>>
    /\ UNCHANGED exportVars

\* the two timelines advance on their own clocks
VideoAdvance(step) ==
    /\ ~vPaused
    /\ duration # NaN
    /\ videoTime < duration
    /\ videoTime' = Min(videoTime + step, duration)
    /\ last' = Did("advance")
    /\ UNCHANGED <<mounted, srcUrl, duration, audioTime, vPaused, aPaused, vRate,
                   aRate, offsetSec, playbackRate, playing, rafRef, dragging,
                   playCall, sfvCall>>
    /\ UNCHANGED exportVars

AudioAdvance(step) ==
    /\ ~aPaused
    /\ duration # NaN
    /\ audioTime < duration
    /\ audioTime' = Min(audioTime + step, duration)
    /\ last' = Did("advance")
    /\ UNCHANGED <<mounted, srcUrl, duration, videoTime, vPaused, aPaused, vRate,
                   aRate, offsetSec, playbackRate, playing, rafRef, dragging,
                   playCall, sfvCall>>
    /\ UNCHANGED exportVars

\* ------------------------------------------------------------ play and pause
\* play(), up to `await ensureAudioGraph()`.  The handler is that of the play
\* button of the earlier component of the file (disabled without a source);
\* the later component keeps the handler and starts from the video controls.
play ==
    /\ mounted /\ srcUrl /\ ~playing
    /\ playCall.pc = "idle" /\ sfvCall.pc = "idle"
    /\ playCall' = [pc |-> "ensureAudioGraph", offsetSec |-> offsetSec,
                    playbackRate |-> playbackRate]
    /\ last' = Did("play")
    /\ UNCHANGED <<mounted, srcUrl, duration, videoTime, audioTime, vPaused, aPaused,
                   vRate, aRate, offsetSec, playbackRate, playing, rafRef, dragging,
                   sfvCall>>
    /\ UNCHANGED exportVars

\* play(), from the rate writes to `await a.play()`: the initial seek, with the
\* offsetSec and playbackRate of the render that created the handler
playSeek(ok) ==
    /\ playCall.pc = "ensureAudioGraph"
    /\ vRate' = ElemRate(playCall.playbackRate)
    /\ aRate' = ElemRate(playCall.playbackRate)
    /\ LET t == targetAudioTime(videoTime, playCall.offsetSec, duration) IN
         /\ safeSetCurrentTime(t, ok)
         /\ last' = [op |-> "play",
                     seeks |-> <<SeekRecord("play", t, videoTime, offsetSec, ok)>>]
    /\ aPaused' = FALSE
    /\ playCall' = [playCall EXCEPT !.pc = "aPlay"]
    /\ UNCHANGED <<mounted, srcUrl, duration, videoTime, vPaused, offsetSec,
                   playbackRate, playing, rafRef, dragging, sfvCall>>
    /\ UNCHANGED exportVars

\* play(), from `await a.play()` to `await v.play()`.  The play event of the
\* video runs startFromVideo, which returns at once: the audio is not paused.
playVideo ==
    /\ playCall.pc = "aPlay"
    /\ vPaused' = FALSE
    /\ playCall' = [playCall EXCEPT !.pc = "vPlay"]
    /\ last' = Did("play")
    /\ UNCHANGED <<mounted, srcUrl, duration, videoTime, audioTime, aPaused, vRate,
                   aRate, offsetSec, playbackRate, playing, rafRef, dragging, sfvCall>>
    /\ UNCHANGED exportVars

\* (variant: the render of setPlaying(true) issues no seek)
setPlayingTrueWithoutSeek(op, ok) ==
    IF mounted /\ ~playing
    THEN /\ playing' = TRUE
         /\ rafRef' = TRUE
         /\ last' = Did(op)
         /\ UNCHANGED audioTime
    ELSE /\ last' = Did(op)
         /\ UNCHANGED <<playing, rafRef, audioTime>>

\* setPlaying(true) and the effects of its render: the [offsetSec, playing]
\* effect seeks once, the loop effect schedules the first tick.  Nothing renders
\* when playing is already true or the component is gone.
setPlayingTrue(op, ok) ==
    IF mounted /\ ~playing
    THEN /\ playing' = TRUE
         /\ rafRef' = TRUE
         /\ LET t == targetAudioTime(videoTime, offsetSec, duration) IN
              /\ safeSetCurrentTime(t, ok)
              /\ last' = [op |-> op,
                          seeks |-> <<SeekRecord("offsetEffect", t, videoTime, offsetSec, ok)>>]
    ELSE /\ last' = Did(op)
         /\ UNCHANGED <<playing, rafRef, audioTime>>

\* play(), after `await v.play()`
playDone(ok) ==
    /\ playCall.pc = "vPlay"
    /\ setPlayingTrue("setPlaying", ok)
    /\ playCall' = IdleCall
    /\ UNCHANGED <<mounted, srcUrl, duration, videoTime, vPaused, aPaused, vRate,
                   aRate, offsetSec, playbackRate, dragging, sfvCall>>
    /\ UNCHANGED exportVars

\* The user starts the video from its own controls; its play event runs
\* startFromVideo up to `await ensureAudioGraph()`, or up to `if (!a.paused) return`.
startFromVideo ==
    /\ mounted /\ srcUrl /\ vPaused
    /\ playCall.pc = "idle" /\ sfvCall.pc = "idle"
    /\ vPaused' = FALSE
    /\ sfvCall' = IF aPaused
                  THEN [pc |-> "ensureAudioGraph", offsetSec |-> offsetSec,
                        playbackRate |-> playbackRate]
                  ELSE sfvCall
    /\ last' = Did("startFromVideo")
    /\ UNCHANGED <<mounted, srcUrl, duration, videoTime, audioTime, aPaused, vRate,
                   aRate, offsetSec, playbackRate, playing, rafRef, dragging,
                   playCall>>
    /\ UNCHANGED exportVars

\* startFromVideo(), from the rate writes to `await a.play()`
startFromVideoSeek(ok) ==
    /\ sfvCall.pc = "ensureAudioGraph"
    /\ vRate' = ElemRate(sfvCall.playbackRate)
    /\ aRate' = ElemRate(sfvCall.playbackRate)
    /\ LET t == targetAudioTime(videoTime, sfvCall.offsetSec, duration) IN
         /\ safeSetCurrentTime(t, ok)
         /\ last' = [op |-> "startFromVideo",
                     seeks |-> <<SeekRecord("startFromVideo", t, videoTime, offsetSec, ok)>>]
    /\ aPaused' = FALSE
    /\ sfvCall' = [sfvCall EXCEPT !.pc = "aPlay"]
    /\ UNCHANGED <<mounted, srcUrl, duration, videoTime, vPaused, offsetSec,
                   playbackRate, playing, rafRef, dragging, playCall>>
    /\ UNCHANGED exportVars

\* startFromVideo(), after `await a.play()`
startFromVideoDone(ok) ==
    /\ sfvCall.pc = "aPlay"
    /\ setPlayingTrue("setPlaying", ok)
    /\ sfvCall' = IdleCall
    /\ UNCHANGED <<mounted, srcUrl, duration, videoTime, vPaused, aPaused, vRate,
                   aRate, offsetSec, playbackRate, dragging, playCall>>
    /\ UNCHANGED exportVars

\* (variant: the loop effect does not cancel the scheduled tick)
pauseHandlerKeepsLoop(op) ==
    /\ vPaused' = TRUE
    /\ aPaused' = TRUE
    /\ playing' = FALSE
    /\ rafRef' = rafRef
    /\ playCall' = AbortPending(playCall)
    /\ sfvCall' = AbortPending(sfvCall)
    /\ last' = Did(op)
    /\ UNCHANGED <<mounted, srcUrl, duration, videoTime, audioTime, vRate, aRate,
                   offsetSec, playbackRate, dragging>>
    /\ UNCHANGED exportVars

\* pause(): both elements pause, setPlaying(false), and the loop effect of the
\* render cancels the scheduled tick.  Pausing rejects a pending play() promise.
pauseHandler(op) ==
    /\ vPaused' = TRUE
    /\ aPaused' = TRUE
    /\ playing' = FALSE
    /\ rafRef' = FALSE
    /\ playCall' = AbortPending(playCall)
    /\ sfvCall' = AbortPending(sfvCall)
    /\ last' = Did(op)
    /\ UNCHANGED <<mounted, srcUrl, duration, videoTime, audioTime, vRate, aRate,
                   offsetSec, playbackRate, dragging>>
    /\ UNCHANGED exportVars

\* the pause control of the video (onPause), or the stop button of the
\* earlier component
pause ==
    /\ mounted
    /\ playing \/ ~vPaused
    /\ pauseHandler("pause")

\* onEnded: the video has reached its end
onEnded ==
    /\ mounted
    /\ ~vPaused
    /\ duration # NaN
    /\ videoTime = duration
    /\ pauseHandler("ended")

\* ----------------------------------------------------------- offset and rate
\* (variant: the effect does not depend on offsetSec and never runs for it)
setOffsetSecNoEffect(value, op, ok) ==
    /\ offsetSec' = value
    /\ last' = Did(op)
    /\ UNCHANGED <<mounted, srcUrl, duration, videoTime, audioTime, vPaused, aPaused,
                   vRate, aRate, playbackRate, playing, rafRef, dragging, playCall,
                   sfvCall>>
    /\ UNCHANGED exportVars

\* setOffsetSec(value) and the effects of its render.  A render happens only
\* when the value changes; its [offsetSec, playing] effect seeks once while
\* playing, and its loop effect replaces the scheduled tick by a new one.
setOffsetSec(value, op, ok) ==
    /\ offsetSec' = value
    /\ IF value # offsetSec /\ playing
       THEN LET t == targetAudioTime(videoTime, value, duration) IN
              /\ safeSetCurrentTime(t, ok)
              /\ last' = [op |-> op,
                          seeks |-> <<SeekRecord("offsetEffect", t, videoTime, value, ok)>>]
       ELSE /\ last' = Did(op)
            /\ UNCHANGED audioTime
    /\ UNCHANGED <<mounted, srcUrl, duration, videoTime, vPaused, aPaused, vRate,
                   aRate, playbackRate, playing, rafRef, dragging, playCall, sfvCall>>
    /\ UNCHANGED exportVars

\* the offset slider: onChange with parseFloat(e.target.value)
offsetSlider(value, ok) ==
    /\ mounted /\ srcUrl /\ dragging
    /\ value # offsetSec
    /\ setOffsetSec(value, "offsetChange", ok)

\* the offset buttons: setOffsetSec(v => clamp(v -/+ 0.005, -1.0, 1.0))
offsetMinus(ok) ==
    /\ mounted /\ srcUrl /\ ~dragging
    /\ clamp(offsetSec - OffsetStep, OffsetMin, OffsetMax) \in OffsetValues
    /\ setOffsetSec(clamp(offsetSec - OffsetStep, OffsetMin, OffsetMax), "offsetChange", ok)

offsetPlus(ok) ==
    /\ mounted /\ srcUrl /\ ~dragging
    /\ clamp(offsetSec + OffsetStep, OffsetMin, OffsetMax) \in OffsetValues
    /\ setOffsetSec(clamp(offsetSec + OffsetStep, OffsetMin, OffsetMax), "offsetChange", ok)

\* the user takes hold of the offset slider, and lets go of it; the component
\* has no handler for either
dragStart ==
    /\ mounted /\ srcUrl /\ ~dragging
    /\ dragging' = TRUE
    /\ last' = Did("dragStart")
    /\ UNCHANGED <<mounted, srcUrl, duration, videoTime, audioTime, vPaused, aPaused,
                   vRate, aRate, offsetSec, playbackRate, playing, rafRef, playCall,
                   sfvCall>>
    /\ UNCHANGED exportVars

dragEnd ==
    /\ mounted /\ dragging
    /\ dragging' = FALSE
    /\ last' = Did("dragEnd")
    /\ UNCHANGED <<mounted, srcUrl, duration, videoTime, audioTime, vPaused, aPaused,
                   vRate, aRate, offsetSec, playbackRate, playing, rafRef, playCall,
                   sfvCall>>
    /\ UNCHANGED exportVars

\* setPlaybackRate(value) and the effects of its render: the [playbackRate]
\* effect writes the rate to both elements
setPlaybackRate(value) ==
    /\ playbackRate' = value
    /\ vRate' = IF value # playbackRate THEN ElemRate(value) ELSE vRate
    /\ aRate' = IF value # playbackRate THEN ElemRate(value) ELSE aRate
    /\ last' = Did("rateChange")
    /\ UNCHANGED <<mounted, srcUrl, duration, videoTime, audioTime, vPaused, aPaused,
                   offsetSec, playing, rafRef, dragging, playCall, sfvCall>>
    /\ UNCHANGED exportVars

rateSlider(value) ==
    /\ mounted /\ srcUrl /\ ~dragging
    /\ value # playbackRate
    /\ setPlaybackRate(value)

rateMinus ==
    /\ mounted /\ srcUrl /\ ~dragging
    /\ clamp(playbackRate - RateStep, RateMin, RateMax) \in RateValues
    /\ setPlaybackRate(clamp(playbackRate - RateStep, RateMin, RateMax))

ratePlus ==
    /\ mounted /\ srcUrl /\ ~dragging
    /\ clamp(playbackRate + RateStep, RateMin, RateMax) \in RateValues
    /\ setPlaybackRate(clamp(playbackRate + RateStep, RateMin, RateMax))

\* ---------------------------------------------------------------- sync loop
\* (variant: the comparison includes the threshold)
needsJumpAtThreshold(diff) == Abs(diff) >= DriftThreshold

\* whether the tick jumps: Math.abs(diff) > 0.15
needsJump(diff) == Abs(diff) > DriftThreshold

\* (variant: the rate is written without a correction)
nudgedRatePinned(diff, rate) == NudgeScale * rate

\* clamp(1.0 - diff * k, 0.95, 1.05) * playbackRate, with k = 0.25
nudgedRate(diff, rate) == clamp(NudgeScale - diff, NudgeMin, NudgeMax) * rate

\* (variant: the tick writes the nominal rate when it jumps)
tickResetsRate(ok) ==
    /\ mounted /\ rafRef
    /\ LET expectedAudio == videoTime - offsetSec
           diff == audioTime - expectedAudio
           t == clamp(expectedAudio, 0, durationOrInfinity(duration))
       IN IF needsJump(diff)
          THEN /\ safeSetCurrentTime(t, ok)
               /\ aRate' = ElemRate(playbackRate)
               /\ last' = [op |-> "tick",
                           seeks |-> <<SeekRecord("tick", t, videoTime, offsetSec, ok)>>]
          ELSE /\ aRate' = nudgedRate(diff, playbackRate)
               /\ audioTime' = audioTime
               /\ last' = Did("tick")
    /\ UNCHANGED <<mounted, srcUrl, duration, videoTime, vPaused, aPaused, vRate,
                   offsetSec, playbackRate, playing, rafRef, dragging, playCall,
                   sfvCall>>
    /\ UNCHANGED exportVars

\* One run of tick, which schedules the next one.  The tick in place is the
\* one the last render created, so it reads the current offsetSec/playbackRate.
tick(ok) ==
    /\ mounted /\ rafRef
    /\ LET expectedAudio == videoTime - offsetSec
           diff == audioTime - expectedAudio
           t == clamp(expectedAudio, 0, durationOrInfinity(duration))
       IN IF needsJump(diff)
          THEN /\ safeSetCurrentTime(t, ok)
               /\ aRate' = aRate
               /\ last' = [op |-> "tick",
                           seeks |-> <<SeekRecord("tick", t, videoTime, offsetSec, ok)>>]
          ELSE /\ aRate' = nudgedRate(diff, playbackRate)
               /\ audioTime' = audioTime
               /\ last' = Did("tick")
    /\ UNCHANGED <<mounted, srcUrl, duration, videoTime, vPaused, aPaused, vRate,
                   offsetSec, playbackRate, playing, rafRef, dragging, playCall,
                   sfvCall>>
    /\ UNCHANGED exportVars

\* (variant: the handler writes the target to the video element)
onVideoSeekedMovesVideo(t, ok) ==
    /\ mounted /\ srcUrl
    /\ duration # NaN
    /\ t <= duration
    /\ LET target == targetAudioTime(t, offsetSec, duration) IN
         /\ videoTime' = IF ok THEN ElementPosition(target, duration) ELSE t
         /\ last' = [op |-> "seeked",
                     seeks |-> <<SeekRecord("onVideoSeeked", target, t, offsetSec, ok)>>]
    /\ UNCHANGED <<mounted, srcUrl, duration, audioTime, vPaused, aPaused, vRate,
                   aRate, offsetSec, playbackRate, playing, rafRef, dragging,
                   playCall, sfvCall>>
    /\ UNCHANGED exportVars

\* the user scrubs the video to position t; its seeked event runs onVideoSeeked
onVideoSeeked(t, ok) ==
    /\ mounted /\ srcUrl
    /\ duration # NaN
    /\ t <= duration
    /\ videoTime' = t
    /\ LET target == targetAudioTime(t, offsetSec, duration) IN
         /\ safeSetCurrentTime(target, ok)
         /\ last' = [op |-> "seeked",
                     seeks |-> <<SeekRecord("onVideoSeeked", target, t, offsetSec, ok)>>]
    /\ UNCHANGED <<mounted, srcUrl, duration, vPaused, aPaused, vRate, aRate,
                   offsetSec, playbackRate, playing, rafRef, dragging, playCall,
                   sfvCall>>
    /\ UNCHANGED exportVars

\* The component unmounts: the cleanup of the loop effect cancels the tick.
\* Removing the elements from the document pauses them.
unmount ==
    /\ mounted
    /\ mounted' = FALSE
    /\ rafRef' = FALSE
    /\ dragging' = FALSE
    /\ vPaused' = TRUE
    /\ aPaused' = TRUE
    /\ playCall' = AbortPending(playCall)
    /\ sfvCall' = AbortPending(sfvCall)
    /\ last' = Did("unmount")
    /\ UNCHANGED <<srcUrl, duration, videoTime, audioTime, vRate, aRate, offsetSec,
                   playbackRate, playing>>
    /\ UNCHANGED exportVars

\* ------------------------------------------------------------ export: library
\* getFFmpeg up to its first await.  The first caller starts the load (or finds
\* the runtime missing, and the promise rejected); a later caller gets the
\* instance or the promise that is there.
startsLoad == ~ffmpegInstance /\ ffmpegLoading = "none" /\ runtime

\* (variant: only the loaded instance is reused, not the promise of the load)
getFFmpegWithoutPromise(serial) ==
    IF ffmpegInstance
    THEN UNCHANGED <<ffmpegLoading, loadCount, progressOwner>>
    ELSE IF runtime
         THEN /\ ffmpegLoading' = "pending"
              /\ loadCount' = loadCount + 1
              /\ progressOwner' = serial
         ELSE /\ ffmpegLoading' = "rejected"
              /\ UNCHANGED <<loadCount, progressOwner>>

\* (variant: a load that has failed is started again by the next caller)
getFFmpegRetriesAfterFailure(serial) ==
    IF ffmpegInstance \/ ffmpegLoading = "pending"
    THEN UNCHANGED <<ffmpegLoading, loadCount, progressOwner>>
    ELSE IF runtime
         THEN /\ ffmpegLoading' = "pending"
              /\ loadCount' = loadCount + 1
              /\ progressOwner' = serial
         ELSE /\ ffmpegLoading' = "rejected"
              /\ UNCHANGED <<loadCount, progressOwner>>

\* getFFmpeg(onProgress), called by the invocation numbered serial: the
\* progress handler registered before the load calls that onProgress
getFFmpeg(serial) ==
    IF ffmpegInstance \/ ffmpegLoading # "none"
    THEN UNCHANGED <<ffmpegLoading, loadCount, progressOwner>>
    ELSE IF runtime
         THEN /\ ffmpegLoading' = "pending"
              /\ loadCount' = loadCount + 1
              /\ progressOwner' = serial
         ELSE /\ ffmpegLoading' = "rejected"
              /\ UNCHANGED <<loadCount, progressOwner>>

\* exportVideoWithOffset(options) up to its first await or its return: the
\* trivial test, the cache lookup, the synchronous part of getFFmpeg
exportVideoWithOffset(c, req) ==
    /\ calls[c].pc \in {"idle", "settled"}
    /\ callsMade < MaxCalls
    /\ callsMade' = callsMade + 1
    /\ LET call == [NoCall EXCEPT !.req = req, !.serial = callsMade + 1,
                                  !.prior = succeeded]
           key == cacheKey(req)
       IN IF isTrivial(req)
          THEN /\ calls' = [calls EXCEPT ![c] =
                              settle([call EXCEPT !.route = "file"], FileResult(req.file))]
               /\ UNCHANGED <<ffmpegLoading, loadCount, succeeded, progressOwner>>
          ELSE IF key \in DOMAIN exportCache
          THEN /\ calls' = [calls EXCEPT ![c] =
                              settle([call EXCEPT !.route = "cache"],
                                     BlobResult(exportCache[key]))]
               /\ succeeded' = succeeded \cup {[req |-> req, blob |-> exportCache[key]]}
               /\ UNCHANGED <<ffmpegLoading, loadCount, progressOwner>>
          ELSE /\ calls' = [calls EXCEPT ![c] =
                              [call EXCEPT !.pc = "getFFmpeg", !.route = "engine",
                                           !.ops = IF startsLoad
                                                   THEN <<EngineOp("load")>>
                                                   ELSE <<>>]]
               /\ getFFmpeg(callsMade + 1)
               /\ UNCHANGED succeeded
    /\ UNCHANGED <<runtime, ffmpegInstance, exportCache, delivered, logBuffer>>

\* a caller of the library, one call at a time
callExport(req) ==
    /\ exportVideoWithOffset(1, req)
    /\ UNCHANGED <<syncVars, sourceFile, uiVars, probe>>

\* a caller of the library that does not wait for its earlier calls
callExportAt(c, req) ==
    /\ exportVideoWithOffset(c, req)
    /\ UNCHANGED <<syncVars, sourceFile, uiVars, probe>>

\* ffmpeg.load() settles; on success getFFmpeg stores the instance
loadSettled(ok) ==
    /\ ffmpegLoading = "pending"
    /\ ffmpegLoading' = IF ok THEN "resolved" ELSE "rejected"
    /\ ffmpegInstance' = ok
    /\ UNCHANGED <<runtime, loadCount, exportCache, calls, callsMade, succeeded>>
    /\ UNCHANGED <<syncVars, sourceFile, uiVars, probe>>
    /\ UNCHANGED engineVars

\* after `await getFFmpeg(onProgress)`: the load error is thrown on, or the
\* log buffer is emptied and the input is handed to writeFile
afterGetFFmpeg(c) ==
    /\ calls[c].pc = "getFFmpeg"
    /\ ffmpegLoading # "pending"
    /\ calls' = [calls EXCEPT ![c] =
                   IF ffmpegInstance
                   THEN [@ EXCEPT !.pc = "writeFile",
                                  !.ops = Append(@, EngineOp("writeFile"))]
                   ELSE settle(@, ErrorResult("load"))]
    /\ UNCHANGED <<runtime, ffmpegInstance, ffmpegLoading, loadCount, exportCache,
                   callsMade, succeeded>>
    /\ UNCHANGED <<syncVars, sourceFile, uiVars, probe>>
    /\ logBuffer' = IF ffmpegInstance THEN EmptyLog ELSE logBuffer
    /\ UNCHANGED <<progressOwner, delivered>>

\* after `await ffmpeg.writeFile(...)`: the first exec is issued, on the
\* audio-only path for an offset-only request and as a full re-encode otherwise
afterWriteFile(c, ok) ==
    /\ calls[c].pc = "writeFile"
    /\ \E upMs \in BOOLEAN, upFix \in BOOLEAN :
         calls' = [calls EXCEPT ![c] =
                     IF ~ok
                     THEN settle(@, ErrorResult("input"))
                     ELSE IF audioOnlyPath(@.req)
                          THEN [@ EXCEPT !.pc = "exec", !.path = "audioOnly",
                                         !.ops = Append(@, ExecAudioOnly(calls[c].req, upMs))]
                          ELSE startFull(@, upMs, upFix)]
    /\ UNCHANGED <<runtime, ffmpegInstance, ffmpegLoading, loadCount, exportCache,
                   callsMade, succeeded>>
    /\ UNCHANGED <<syncVars, sourceFile, uiVars, probe>>
    /\ UNCHANGED engineVars

\* after `await ffmpeg.exec(...)`: read the output; a failure of the audio-only
\* exec falls through to the full re-encode, a failure of the full re-encode
\* is thrown
afterExec(c, ok) ==
    /\ calls[c].pc = "exec"
    /\ \E upMs \in BOOLEAN, upFix \in BOOLEAN :
         calls' = [calls EXCEPT ![c] =
                     IF ok
                     THEN [@ EXCEPT !.pc = "readFile",
                                    !.ops = Append(@, EngineOp("readFile"))]
                     ELSE IF @.path = "audioOnly"
                          THEN startFull(@, upMs, upFix)
                          ELSE settle(@, ExecErrorResult(logTail(logBuffer)))]
    /\ UNCHANGED <<runtime, ffmpegInstance, ffmpegLoading, loadCount, exportCache,
                   callsMade, succeeded>>
    /\ UNCHANGED <<syncVars, sourceFile, uiVars, probe>>
    /\ UNCHANGED engineVars

\* (variant: the cache is written whether readFile succeeded or not)
afterReadFileAlwaysStores(c, ok) ==
    /\ calls[c].pc = "readFile"
    /\ exportCache' = (cacheKey(calls[c].req) :> calls[c].serial) @@ exportCache
    /\ \E upMs \in BOOLEAN, upFix \in BOOLEAN :
         calls' = [calls EXCEPT ![c] =
                     IF ok
                     THEN [@ EXCEPT !.pc = "deleteInput",
                                    !.ops = Append(@, EngineOp("deleteInput"))]
                     ELSE IF @.path = "audioOnly"
                          THEN startFull(@, upMs, upFix)
                          ELSE settle(@, ErrorResult("read"))]
    /\ UNCHANGED <<runtime, ffmpegInstance, ffmpegLoading, loadCount, callsMade,
                   succeeded>>
    /\ UNCHANGED <<syncVars, sourceFile, uiVars, probe>>
    /\ UNCHANGED engineVars

\* after `await ffmpeg.readFile(outputName)`: the Blob is stored in the cache
\* and the input is deleted; a failure inside the try of the audio-only path
\* falls through to the full re-encode, a failure after the full re-encode is
\* thrown
afterReadFile(c, ok) ==
    /\ calls[c].pc = "readFile"
    /\ exportCache' = IF ok
                      THEN (cacheKey(calls[c].req) :> calls[c].serial) @@ exportCache
                      ELSE exportCache
    /\ \E upMs \in BOOLEAN, upFix \in BOOLEAN :
         calls' = [calls EXCEPT ![c] =
                     IF ok
                     THEN [@ EXCEPT !.pc = "deleteInput",
                                    !.ops = Append(@, EngineOp("deleteInput"))]
                     ELSE IF @.path = "audioOnly"
                          THEN startFull(@, upMs, upFix)
                          ELSE settle(@, ErrorResult("read"))]
    /\ UNCHANGED <<runtime, ffmpegInstance, ffmpegLoading, loadCount, callsMade,
                   succeeded>>
    /\ UNCHANGED <<syncVars, sourceFile, uiVars, probe>>
    /\ UNCHANGED engineVars

\* after `await ffmpeg.deleteFile?.(inputName).catch(...)`: a failure is ignored
afterDeleteInput(c, ok) ==
    /\ calls[c].pc = "deleteInput"
    /\ calls' = [calls EXCEPT ![c] =
                   [@ EXCEPT !.pc = "deleteOutput",
                             !.ops = Append(@, EngineOp("deleteOutput"))]]
    /\ UNCHANGED <<runtime, ffmpegInstance, ffmpegLoading, loadCount, exportCache,
                   callsMade, succeeded>>
    /\ UNCHANGED <<syncVars, sourceFile, uiVars, probe>>
    /\ UNCHANGED engineVars

\* after `await ffmpeg.deleteFile?.(outputName).catch(...)`: return blob
afterDeleteOutput(c, ok) ==
    /\ calls[c].pc = "deleteOutput"
    /\ calls' = [calls EXCEPT ![c] = settle(@, BlobResult(@.serial))]
    /\ succeeded' = succeeded \cup {[req |-> calls[c].req, blob |-> calls[c].serial]}
    /\ UNCHANGED <<runtime, ffmpegInstance, ffmpegLoading, loadCount, exportCache,
                   callsMade>>
    /\ UNCHANGED <<syncVars, sourceFile, uiVars, probe>>
    /\ UNCHANGED engineVars

\* ffmpeg.on("log", ...): the engine logs n lines while an exec runs
engineLog(n) ==
    /\ \E c \in Slots : calls[c].pc = "exec"
    /\ logBuffer.dropped + logBuffer.len + n <= MaxLogLines
    /\ logBuffer' = pushLines(logBuffer, n)
    /\ UNCHANGED <<runtime, ffmpegInstance, ffmpegLoading, loadCount, exportCache,
                   calls, callsMade, succeeded, progressOwner, delivered>>
    /\ UNCHANGED <<syncVars, sourceFile, uiVars, probe>>

\* ----------------------------------------------------------------- export: UI
\* <Script onLoad>: the ffmpeg.js script has loaded, and has defined
\* window.FFmpegWASM or not
scriptLoaded(defines) ==
    /\ mounted
    /\ ~ffmpegReady
    /\ ffmpegReady' = TRUE
    /\ runtime' = defines
    /\ last' = Did("scriptLoaded")
    /\ UNCHANGED <<exporting, exportProgress, exportError, ffmpegInstance,
                   ffmpegLoading, loadCount, exportCache, calls, callsMade, succeeded>>
    /\ UNCHANGED <<mediaVars, sourceFile, probe>>
    /\ UNCHANGED engineVars

\* (variant: neither the button nor the handler looks at the busy flag)
exportBlockedNoBusy == ~srcUrl \/ sourceFile = NoFile

\* a click on the export button does nothing: the button is disabled
\* (!srcUrl || exporting) or onExport returns at once (!sourceFile || exporting)
exportBlocked == ~srcUrl \/ sourceFile = NoFile \/ exporting

\* A click on the export button, and onExport up to its await with the render
\* of its state updates.  The call takes the first free slot.
onExport(c) ==
    /\ mounted
    /\ calls[c].pc = "idle"
    /\ \A d \in Slots : d < c => calls[d].pc # "idle"
    /\ IF exportBlocked
       THEN /\ last' = Did("exportBlocked")
            /\ UNCHANGED <<uiVars, libVars>>
       ELSE IF ~ffmpegReady
            THEN /\ exportError' = "notReady"
                 /\ last' = Did("exportNotReady")
                 /\ UNCHANGED <<ffmpegReady, exporting, exportProgress, libVars>>
            ELSE /\ exportError' = "none"
                 /\ exportProgress' = 0
                 /\ exporting' = TRUE
                 /\ exportVideoWithOffset(
                        c, Request(sourceFile, playbackRate, offsetSec, NaN, NaN))
                 /\ last' = Did("onExport")
                 /\ UNCHANGED ffmpegReady
    /\ UNCHANGED <<mediaVars, sourceFile, probe>>

\* onExport after its await: the download or setExportError(message), then
\* setExporting(false).  A state update of an unmounted component does nothing.
onExportSettled(c) ==
    /\ calls[c].pc = "settled"
    /\ calls' = [calls EXCEPT ![c] = NoCall]
    /\ exporting' = IF mounted THEN FALSE ELSE exporting
    /\ exportError' = IF mounted /\ calls[c].result.kind = "error"
                      THEN calls[c].result.error
                      ELSE exportError
    /\ last' = Did(IF calls[c].result.kind = "error" THEN "exportFailed" ELSE "download")
    /\ UNCHANGED <<ffmpegReady, exportProgress, runtime, ffmpegInstance, ffmpegLoading,
                   loadCount, exportCache, callsMade, succeeded>>
    /\ UNCHANGED <<mediaVars, sourceFile, probe>>
    /\ UNCHANGED engineVars

\* ffmpeg.on("progress", ({ progress }) => onProgress?.(progress)): the engine
\* reports progress while invocation c waits for its exec, and the handler
\* hands the value to the onProgress it was registered with
engineProgress(c, p) ==
    /\ calls[c].pc = "exec"
    /\ progressOwner # 0
    /\ delivered' = Delivery(progressOwner, calls[c].serial, p)
    /\ UNCHANGED <<runtime, ffmpegInstance, ffmpegLoading, loadCount, exportCache,
                   calls, callsMade, succeeded, progressOwner, logBuffer>>

\* a progress event under a caller of the library: the callback is the
\* caller's own
callerProgress(c, p) ==
    /\ engineProgress(c, p)
    /\ UNCHANGED <<syncVars, sourceFile, uiVars, probe>>

\* onProgress: (p) => setExportProgress(p), with the render that follows
onProgress(c, p) ==
    /\ engineProgress(c, p)
    /\ exportProgress' = IF mounted THEN p ELSE exportProgress
    /\ last' = Did("onProgress")
    /\ UNCHANGED <<ffmpegReady, exporting, exportError>>
    /\ UNCHANGED <<mediaVars, sourceFile, probe>>

\* ------------------------------------------------- pure functions on an input
applyBuildAtempoFilters(up) ==
    /\ probe.fn = "none"
    /\ probe.arg > 0
    /\ probe' = [probe EXCEPT !.fn = "buildAtempoFilters",
                              !.out = buildAtempoFilters(probe.arg, up)]
    /\ UNCHANGED <<syncVars, sourceFile, uiVars, libVars>>

\* buildAtempoFilters(rate) as exportVideoWithOffset calls it, on the rate
\* that clampRate returns for the playbackRate of the options
applyExportAtempo(up) ==
    /\ probe.fn = "none"
    /\ probe' = [probe EXCEPT !.fn = "exportAtempo",
                              !.out = buildAtempoFilters(clampRate(probe.arg), up)]
    /\ UNCHANGED <<syncVars, sourceFile, uiVars, libVars>>

applyAudioOnlyOffsetFilters(up) ==
    /\ probe.fn = "none"
    /\ isFinite(probe.arg)
    /\ aboveEps(probe.arg)
    /\ probe' = [probe EXCEPT !.fn = "audioOnlyOffsetFilters",
                              !.out = audioOnlyOffsetFilters(probe.arg, up)]
    /\ UNCHANGED <<syncVars, sourceFile, uiVars, libVars>>

applyFullOffsetFilters(up) ==
    /\ probe.fn = "none"
    /\ isFinite(probe.arg)
    /\ probe' = [probe EXCEPT !.fn = "fullOffsetFilters",
                              !.out = fullOffsetFilters(probe.arg, up)]
    /\ UNCHANGED <<syncVars, sourceFile, uiVars, libVars>>

\* --------------------------------------------------------------------- Spec
SyncFiles == {File1}

SyncNext ==
    \/ \E file \in SyncFiles : onPickFile(file)
    \/ \E d \in Durations : LoadedMetadata(d)
    \/ \E step \in AdvanceSteps : VideoAdvance(step)
    \/ \E step \in AdvanceSteps : AudioAdvance(step)
    \/ play
    \/ \E ok \in BOOLEAN : playSeek(ok)
    \/ playVideo
    \/ \E ok \in BOOLEAN : playDone(ok)
    \/ startFromVideo
    \/ \E ok \in BOOLEAN : startFromVideoSeek(ok)
    \/ \E ok \in BOOLEAN : startFromVideoDone(ok)
    \/ pause
    \/ onEnded
    \/ \E value \in OffsetValues, ok \in BOOLEAN : offsetSlider(value, ok)
    \/ \E ok \in BOOLEAN : offsetMinus(ok)
    \/ \E ok \in BOOLEAN : offsetPlus(ok)
    \/ dragStart
    \/ dragEnd
    \/ \E value \in RateValues : rateSlider(value)
    \/ rateMinus
    \/ ratePlus
    \/ \E ok \in BOOLEAN : tick(ok)
    \/ \E t \in ScrubTargets, ok \in BOOLEAN : onVideoSeeked(t, ok)
    \/ unmount

Init == SyncInit /\ ExportIdle

Spec == Init /\ [][SyncNext]_vars

\* the pure functions of the export, each applied to an input of the grid
FiltersInit ==
    /\ SyncInit
    /\ UiIdle
    /\ LibIdle
    /\ runtime = FALSE
    /\ probe \in {NoProbe(x) : x \in (-MaxProbe..MaxProbe) \cup {NaN}}

FiltersNext ==
    \/ \E up \in BOOLEAN : applyBuildAtempoFilters(up)
    \/ \E up \in BOOLEAN : applyExportAtempo(up)
    \/ \E up \in BOOLEAN : applyAudioOnlyOffsetFilters(up)
    \/ \E up \in BOOLEAN : applyFullOffsetFilters(up)

SpecFilters == FiltersInit /\ [][FiltersNext]_vars

\* the library under a caller that makes one call after the other
Files == {File1, File(2, 1, 1), File(1, 2, 1), File(1, 1, 2)}

Requests ==
    {Request(f, 15000, 2000, 10000, 30000) : f \in Files}
    \cup {Request(File1, r, o, 10000, 30000) :
            r \in {12500, 15000}, o \in {0, 2000}}
    \cup {Request(File1, 15000, 2000, t[1], t[2]) :
            t \in {<<20000, 30000>>, <<10000, 40000>>, <<NaN, NaN>>,
                   <<10000, NaN>>, <<30000, 10000>>, <<20000, 20000>>}}
    \cup {Request(File1, RateOne, o, 30000, 10000) : o \in {0, 2000}}
    \cup {Request(File1, r, o, NaN, NaN) :
            r \in {RateOne, NaN}, o \in {0, 2000, -2000, NaN}}

LibInit ==
    /\ SyncInit
    /\ UiIdle
    /\ LibIdle
    /\ runtime \in BOOLEAN
    /\ probe = NoProbe(0)

LibNext ==
    \/ \E req \in Requests : callExport(req)
    \/ \E ok \in BOOLEAN : loadSettled(ok)
    \/ \E c \in Slots : afterGetFFmpeg(c)
    \/ \E c \in Slots, ok \in BOOLEAN : afterWriteFile(c, ok)
    \/ \E c \in Slots, ok \in BOOLEAN : afterExec(c, ok)
    \/ \E c \in Slots, ok \in BOOLEAN : afterReadFile(c, ok)
    \/ \E c \in Slots, ok \in BOOLEAN : afterDeleteInput(c, ok)
    \/ \E c \in Slots, ok \in BOOLEAN : afterDeleteOutput(c, ok)

SpecLib == LibInit /\ [][LibNext]_vars

\* the library under callers that overlap
ConcRequests == {Request(File1, 15000, 2000, NaN, NaN)}
ConcProgress == {7500}

ConcInit ==
    /\ SyncInit
    /\ UiIdle
    /\ LibIdle
    /\ runtime \in BOOLEAN
    /\ probe = NoProbe(0)

ConcNext ==
    \/ \E c \in Slots, req \in ConcRequests : callExportAt(c, req)
    \/ \E c \in Slots, p \in ConcProgress : callerProgress(c, p)
    \/ \E ok \in BOOLEAN : loadSettled(ok)
    \/ \E c \in Slots : afterGetFFmpeg(c)
    \/ \E c \in Slots, ok \in BOOLEAN : afterWriteFile(c, ok)
    \/ \E c \in Slots, ok \in BOOLEAN : afterExec(c, ok)
    \/ \E c \in Slots, ok \in BOOLEAN : afterReadFile(c, ok)
    \/ \E c \in Slots, ok \in BOOLEAN : afterDeleteInput(c, ok)
    \/ \E c \in Slots, ok \in BOOLEAN : afterDeleteOutput(c, ok)

SpecConc == ConcInit /\ [][ConcNext]_vars

\* the library with an engine that logs: a request that goes to the full
\* re-encode at once and one that takes the audio-only path first
LogRequests ==
    {Request(File1, 15000, 2000, NaN, NaN), Request(File1, RateOne, 2000, NaN, NaN)}

\* log events come in short and in long runs
LogBursts == {10, LogCapacity}

LogInit ==
    /\ SyncInit
    /\ UiIdle
    /\ LibIdle
    /\ runtime \in BOOLEAN
    /\ probe = NoProbe(0)

LogNext ==
    \/ \E req \in LogRequests : callExport(req)
    \/ \E ok \in BOOLEAN : loadSettled(ok)
    \/ \E n \in LogBursts : engineLog(n)
    \/ \E c \in Slots : afterGetFFmpeg(c)
    \/ \E c \in Slots, ok \in BOOLEAN : afterWriteFile(c, ok)
    \/ \E c \in Slots, ok \in BOOLEAN : afterExec(c, ok)
    \/ \E c \in Slots, ok \in BOOLEAN : afterReadFile(c, ok)
    \/ \E c \in Slots, ok \in BOOLEAN : afterDeleteInput(c, ok)
    \/ \E c \in Slots, ok \in BOOLEAN : afterDeleteOutput(c, ok)

SpecLog == LogInit /\ [][LogNext]_vars

\* the export button of the component, over the library
UiFiles == {File1}
UiOffsetValues == {0, 1500}
\* progress values in 1e-4: below 0, inside [0, 1], above 1
ProgressValues == {-1000, 7500, 12000}

UiNext ==
    \/ \E file \in UiFiles : onPickFile(file)
    \/ \E defines \in BOOLEAN : scriptLoaded(defines)
    \/ dragStart
    \/ \E value \in UiOffsetValues, ok \in BOOLEAN : offsetSlider(value, ok)
    \/ dragEnd
    \/ \E value \in RateValues : rateSlider(value)
    \/ \E c \in Slots : onExport(c)
    \/ \E c \in Slots : onExportSettled(c)
    \/ \E c \in Slots, p \in ProgressValues : onProgress(c, p)
    \/ \E ok \in BOOLEAN : loadSettled(ok)
    \/ \E c \in Slots : afterGetFFmpeg(c)
    \/ \E c \in Slots, ok \in BOOLEAN : afterWriteFile(c, ok)
    \/ \E c \in Slots, ok \in BOOLEAN : afterExec(c, ok)
    \/ \E c \in Slots, ok \in BOOLEAN : afterReadFile(c, ok)
    \/ \E c \in Slots, ok \in BOOLEAN : afterDeleteInput(c, ok)
    \/ \E c \in Slots, ok \in BOOLEAN : afterDeleteOutput(c, ok)
    \/ unmount

UiInit == SyncInit /\ ExportIdle

SpecUI == UiInit /\ [][UiNext]_vars

\* ------------------------------------------------------- claims: sync logic
\* the seeks the last step issued
IssuedSeeks == {last.seeks[i] : i \in DOMAIN last.seeks}

\* clamp(videoTime - offsetSec, 0, audioDuration), an unknown duration bounding nothing
ClaimedTarget(vt, off, d) ==
    IF d = NaN THEN Max(0, vt - off) ELSE Max(0, Min(d, vt - off))

\* C1: every seek the sync logic issues (initial seek of play/startFromVideo,
\* corrective seek of the tick, seek on offset change, seek on video scrub)
\* targets clamp(videoTime - offsetSec, 0, audioDuration), with videoTime and
\* offsetSec as they are at the moment of the seek.
C1_SeekTarget ==
    \A s \in IssuedSeeks : s.target = ClaimedTarget(s.videoTime, s.offsetSec, s.duration)

\* C2, as claimed: a tick issues a corrective seek iff the drift it reads is
\* above 0.12 s.
C2_ThresholdAsClaimed ==
    [][last'.op = "tick" =>
         (last'.seeks # NoSeeks <=> Abs(audioTime - (videoTime - offsetSec)) > 1200)]_vars

\* C2, amended: a tick issues a corrective seek iff the drift it reads is above
\* 0.15 s; at 0.15 s and below it issues none.
C2_Threshold ==
    [][last'.op = "tick" =>
         (last'.seeks # NoSeeks <=> Abs(audioTime - (videoTime - offsetSec)) > 1500)]_vars

\* a tick has just run on a drift of exactly 0.15 s and has not sought
C2_Witness ==
    /\ last.op = "tick"
    /\ last.seeks = NoSeeks
    /\ Abs(audioTime - (videoTime - offsetSec)) = 1500

\* C3, as claimed: with playback running, no seek is issued by the tick or by
\* an offset change while the user drags the offset control, and exactly one
\* seek is issued when the drag ends.
C3_DragAsClaimed ==
    /\ (dragging /\ playing) =>
          \A s \in IssuedSeeks : s.by \notin {"tick", "offsetEffect"}
    /\ (last.op = "dragEnd" /\ playing) => Len(last.seeks) = 1

\* C3, amended: the component knows no drag.  With playback running, every
\* change of the offset during a drag issues exactly one seek at once, from the
\* [offsetSec, playing] effect, and the end of the drag issues none.
C3_Drag ==
    /\ (dragging /\ playing /\ last.op = "offsetChange") =>
          /\ Len(last.seeks) = 1
          /\ last.seeks[1].by = "offsetEffect"
    /\ last.op = "dragEnd" => last.seeks = NoSeeks

\* the offset has just changed during a drag, with playback running, and the
\* change has sought
C3_Witness ==
    /\ dragging /\ playing
    /\ last.op = "offsetChange"
    /\ Len(last.seeks) = 1

\* C4, as claimed: whatever the interleaving of seek requests, the audio
\* position ends up as the target of the most recent request.
C4_LastRequestAsClaimed ==
    \A s \in IssuedSeeks : audioTime = ElementPosition(s.target, s.duration)

\* C4, amended: there is no token and no retry.  A seek is applied within the
\* step that requests it or, when the element rejects it, dropped for good: a
\* step moves the audio position only to the target of the seek it issues
\* itself (or by the element playing or loading), so no earlier request can
\* overwrite a later one, and a rejected request leaves the position of the
\* last accepted one.
C4_NoRetry ==
    [][IF last'.seeks # NoSeeks
       THEN audioTime' = IF last'.seeks[1].ok
                         THEN ElementPosition(last'.seeks[1].target, duration)
                         ELSE audioTime
       ELSE audioTime' # audioTime =>
              last'.op \in {"advance", "loadedmetadata", "onPickFile"}]_vars

\* the most recent seek was rejected and the audio position is not its target
C4_Witness ==
    /\ last.seeks # NoSeeks
    /\ ~last.seeks[1].ok
    /\ audioTime # ElementPosition(last.seeks[1].target, duration)

\* ----------------------------------------------------------- claims: export
RECURSIVE GCD(_, _)
GCD(a, b) == IF b = 0 THEN a ELSE GCD(b, a % b)

\* the product of the tempos of a chain (thousandths), as a reduced fraction
RECURSIVE TempoProduct(_)
TempoProduct(chain) ==
    IF chain = <<>>
    THEN [num |-> 1, den |-> 1]
    ELSE LET p == TempoProduct(Tail(chain))
             n == p.num * Head(chain).tempo
             d == p.den * 1000
             g == GCD(n, d)
         IN [num |-> n \div g, den |-> d \div g]

IsLoopTempo(f) == ~f.fixed

\* C5: for every rate in [0.1, 2.0], buildAtempoFilters(rate) is a list of
\* tempo operations with every multiplier in [0.5, 2.0], the product of the
\* multipliers (1 for the empty list) is within 1e-3 of rate, and no final
\* operation is emitted when the multiplier left after the 0.5 and 2.0
\* operations is within 1e-4 of 1.0.
C5_Atempo ==
    (probe.fn = "buildAtempoFilters" /\ probe.arg \in RateMin..RateMax) =>
        LET out == probe.out
            p == TempoProduct(out)
            loops == TempoProduct(SelectSeq(out, IsLoopTempo))
        IN /\ \A i \in DOMAIN out :
                out[i].op = "atempo" /\ out[i].tempo >= 500 /\ out[i].tempo <= 2000
           /\ Abs(p.num * 10000 - probe.arg * p.den) <= 10 * p.den
           /\ Abs(probe.arg * loops.den - 10000 * loops.num) <= loops.num
                 => \A i \in DOMAIN out : ~out[i].fixed

\* a rate of the range has been decomposed into several operations whose
\* product is not the rate itself (the last one has been rounded)
C5_Witness ==
    /\ probe.fn = "buildAtempoFilters"
    /\ probe.arg \in RateMin..RateMax
    /\ Len(probe.out) > 2
    /\ LET p == TempoProduct(probe.out)
       IN p.num * 10000 # probe.arg * p.den

\* the shift of the start of the audio that a chain of offset filters makes,
\* in 1e-4 s: a delay moves it later, a trim from the start followed by a
\* timestamp reset moves it earlier
RECURSIVE AudioShift(_)
AudioShift(chain) ==
    IF chain = <<>>
    THEN 0
    ELSE LET f == Head(chain)
             rest == Tail(chain)
         IN (IF f.op = "adelay" /\ f.left = f.right
             THEN f.left * 10
             ELSE IF f.op = "atrim" /\ rest # <<>> /\ Head(rest).op = "asetpts"
                  THEN -f.start
                  ELSE 0)
            + AudioShift(rest)

\* C6: for every offset in [-1.0, 1.0] the offset operations of the export (on
\* the audio-only path and in the full re-encode) are: for a positive offset
\* one delay of round(offset * 1000) ms, the same on both channels; for a
\* negative offset a trim from |offset| followed at once by a timestamp reset;
\* for offset 0 nothing; and the start of the audio moves by offset within 1 ms.
C6_OffsetFilters ==
    (/\ probe.fn \in {"audioOnlyOffsetFilters", "fullOffsetFilters"}
     /\ probe.arg \in OffsetMin..OffsetMax) =>
        LET o == probe.arg
            out == probe.out
        IN /\ o > 0 => /\ Len(out) = 1
                       /\ out[1].op = "adelay"
                       /\ out[1].left = out[1].right
                       /\ Abs(out[1].left * 10 - o) <= 5
           /\ o < 0 => /\ Len(out) = 2
                       /\ out[1] = Atrim(-o, NaN)
                       /\ out[2] = Asetpts
           /\ o = 0 => out = <<>>
           /\ Abs(AudioShift(out) - o) <= 10

\* a positive offset that is no whole number of milliseconds has been turned
\* into its delay
C6_Witness ==
    /\ probe.fn \in {"audioOnlyOffsetFilters", "fullOffsetFilters"}
    /\ probe.arg \in 1..OffsetMax
    /\ probe.arg % 10 # 0
    /\ Len(probe.out) = 1

\* a request with rate 1.0, offset 0 and no trim, as passed by the caller
TrivialRequest(req) ==
    /\ req.playbackRate = RateOne
    /\ req.offsetSec = 0
    /\ req.trimStartSec = NaN
    /\ req.trimEndSec = NaN

\* C7: a call with rate 1.0, offset 0 and no trim returns the source file
\* itself within the step that makes it, with no engine operation (no load,
\* writeFile, exec or readFile) and no write to the cache.
C7_TrivialPassThrough ==
    [][\A c \in Slots :
         (/\ calls'[c].serial # calls[c].serial
          /\ calls'[c].serial # 0
          /\ TrivialRequest(calls'[c].req)) =>
             /\ calls'[c].pc = "settled"
             /\ calls'[c].result = FileResult(calls'[c].req.file)
             /\ calls'[c].ops = <<>>
             /\ exportCache' = exportCache
             /\ loadCount' = loadCount
             /\ ffmpegLoading' = ffmpegLoading
             /\ ffmpegInstance' = ffmpegInstance]_vars

\* a trivial call has returned the file although the engine is loaded and the
\* cache holds results
C7_Witness ==
    \E c \in Slots :
        /\ TrivialRequest(calls[c].req)
        /\ calls[c].pc = "settled"
        /\ calls[c].route = "file"
        /\ ffmpegInstance
        /\ DOMAIN exportCache # {}

IsExec(o) == o.op = "exec"

\* C8: for a request with rate 1.0, a non-zero offset and no trim, the first
\* exec copies both streams (container-level copy), and the audio-only
\* re-encode (video copied, audio encoded) comes second, after that failed.
C8_CopyFirst ==
    \A c \in Slots :
        LET req == calls[c].req
            execs == SelectSeq(calls[c].ops, IsExec)
        IN (/\ req.playbackRate = RateOne
            /\ isFinite(req.offsetSec) /\ req.offsetSec # 0
            /\ req.trimStartSec = NaN /\ req.trimEndSec = NaN
            /\ execs # <<>>) =>
               /\ execs[1].vcodec = "copy" /\ execs[1].acodec = "copy"
               /\ Len(execs) > 1 =>
                     execs[2].vcodec = "copy" /\ execs[2].acodec = "aac"

\* the fields a call is compared by, as exportVideoWithOffset reads them: a
\* rate that is not a positive number counts as 1.0, an offset that is not a
\* number as 0, trim bounds that are not both numbers with start < end as 0, 0
EffectiveFields(req) ==
    <<req.file.name, req.file.size, req.file.lastModified,
      IF isFinite(req.playbackRate) /\ req.playbackRate > 0
      THEN req.playbackRate ELSE RateOne,
      IF isFinite(req.offsetSec) THEN req.offsetSec ELSE 0,
      IF hasTrim(req) THEN req.trimStartSec ELSE 0,
      IF hasTrim(req) THEN req.trimEndSec ELSE 0>>

\* C9, as claimed: a non-trivial call identical in all seven fields to an
\* earlier successful call returns the memoized result with no engine
\* operation, and one that differs from every earlier successful call in some
\* field misses the cache and goes through the engine.
C9_CacheAsClaimed ==
    \A c \in Slots :
        (calls[c].pc # "idle" /\ ~isTrivial(calls[c].req)) =>
            /\ (\E p \in calls[c].prior : p.req = calls[c].req) =>
                  calls[c].route = "cache" /\ calls[c].ops = <<>>
            /\ (\A p \in calls[c].prior : p.req # calls[c].req) =>
                  calls[c].route = "engine"

\* C9, amended: the fields are compared as exportVideoWithOffset reads them.
\* A non-trivial call whose effective fields equal those of an earlier
\* successful call returns that call's Blob with no engine operation; one
\* whose effective fields differ from those of every earlier successful call
\* misses the cache and goes to the engine.
C9_Cache ==
    \A c \in Slots :
        (calls[c].pc # "idle" /\ ~isTrivial(calls[c].req)) =>
            LET same == {p \in calls[c].prior :
                           EffectiveFields(p.req) = EffectiveFields(calls[c].req)}
            IN /\ same # {} =>
                     /\ calls[c].route = "cache"
                     /\ calls[c].ops = <<>>
                     /\ \A p \in same : calls[c].result = BlobResult(p.blob)
               /\ same = {} => calls[c].route = "engine"

\* a call has been answered from the cache although its options differ from
\* those of every earlier successful call
C9_Witness ==
    \E c \in Slots :
        /\ calls[c].route = "cache"
        /\ \A p \in calls[c].prior : p.req # calls[c].req

InFlight == {c \in Slots : calls[c].pc # "idle"}

InvalidTrim(req) ==
    /\ isFinite(req.trimStartSec)
    /\ isFinite(req.trimEndSec)
    /\ req.trimStartSec >= req.trimEndSec

\* the request without its trim bounds
WithoutTrim(req) == [req EXCEPT !.trimStartSec = NaN, !.trimEndSec = NaN]

\* an exec that cuts a range: trim=start=..:end=.. or atrim=start=..:end=..
HasTrimFilter(o) ==
    /\ IsExec(o)
    /\ \/ \E i \in DOMAIN o.video : o.video[i].op = "trim"
       \/ \E i \in DOMAIN o.audio :
             o.audio[i].op = "atrim" /\ o.audio[i].end # NaN

\* C11, as claimed: a call whose trim bounds are both present with
\* start >= end is rejected with an error before any engine operation.
C11_InvalidTrimRejected ==
    \A c \in Slots :
        (calls[c].pc # "idle" /\ InvalidTrim(calls[c].req)) =>
            /\ calls[c].pc = "settled"
            /\ calls[c].result.kind = "error"
            /\ calls[c].ops = <<>>

\* C11, amended: a call whose trim bounds are both present with start >= end
\* is not rejected; the bounds are ignored and the call is answered as the
\* same request without a trim: the file itself when rate is 1.0 and offset 0,
\* the audio-only path first when only the offset is set, no exec that cuts a
\* range, and its result cached under the key of the request without a trim.
C11_InvalidTrimIgnored ==
    \A c \in Slots :
        (calls[c].pc # "idle" /\ InvalidTrim(calls[c].req)) =>
            LET bare == WithoutTrim(calls[c].req)
                execs == SelectSeq(calls[c].ops, IsExec)
            IN /\ (calls[c].route = "file") <=> isTrivial(bare)
               /\ \A i \in DOMAIN calls[c].ops : ~HasTrimFilter(calls[c].ops[i])
               /\ execs # <<>> =>
                     (execs[1].path = "audioOnly" <=> audioOnlyPath(bare))
               /\ calls[c].route = "cache" =>
                     \E p \in calls[c].prior : cacheKey(p.req) = cacheKey(bare)
               /\ (calls[c].route = "engine" /\ calls[c].result.kind = "blob") =>
                     cacheKey(bare) \in DOMAIN exportCache

\* a call with trim start >= end has gone through the engine and returned a
\* Blob
C11_Witness ==
    \E c \in Slots :
        /\ InvalidTrim(calls[c].req)
        /\ calls[c].route = "engine"
        /\ calls[c].result.kind = "blob"
        /\ \E i \in DOMAIN calls[c].ops : IsExec(calls[c].ops[i])

\* the call has issued the engine operation op
Issued(call, op) == \E i \in DOMAIN call.ops : call.ops[i].op = op

\* C12: a call that has staged its input in the engine's filesystem (its
\* writeFile succeeded, so that it went on to an exec) has asked for the
\* deletion of its input and of its output by the time it returns or throws.
C12_CleanupAlways ==
    \A c \in Slots :
        (calls[c].pc = "settled" /\ Issued(calls[c], "exec")) =>
            /\ Issued(calls[c], "deleteInput")
            /\ Issued(calls[c], "deleteOutput")

\* ----------------------------------------------------- claims: export button
\* C13: the progress shown while an export runs lies within [0, 1] and does
\* not decrease during that export, whatever values the engine reports.
C13_ProgressClamped ==
    [][exporting' =>
         /\ 0 <= exportProgress' /\ exportProgress' <= 10000
         /\ (exporting /\ callsMade' = callsMade) =>
               exportProgress' >= exportProgress]_vars

\* ------------------------------------------------- claims: export, the log
\* C14: when the exec of the full re-encode fails, the call throws an error
\* whose message carries the most recent lines of the log buffer, at most 25
\* of them, the buffer itself never holding more than 200; the call issues no
\* engine operation after the failed exec.
C14_ExecFailure ==
    [][\A c \in Slots :
         /\ (calls[c].pc = "exec" /\ calls'[c].pc = "settled") =>
               LET d == calls'[c].result.detail
               IN /\ calls[c].path = "full"
                  /\ calls'[c].result.kind = "error"
                  /\ calls'[c].result.error = "exec"
                  /\ logBuffer.len <= LogCapacity
                  /\ d.count <= LogTail
                  /\ d.count = LogTail \/ d.count = logBuffer.len
                  /\ d.first + d.count - 1 = logBuffer.dropped + logBuffer.len
                  /\ calls'[c].ops = calls[c].ops
         /\ (calls[c].pc = "settled" /\ calls'[c].serial = calls[c].serial) =>
               calls'[c] = calls[c]]_vars

\* the full re-encode has failed after the engine had logged more lines than
\* the buffer holds, and the error carries the last 25
C14_Witness ==
    \E c \in Slots :
        /\ calls[c].pc = "settled"
        /\ calls[c].result.kind = "error"
        /\ calls[c].result.error = "exec"
        /\ calls[c].result.detail.count = LogTail
        /\ logBuffer.dropped > 0

\* ------------------------------------------- claims: export, the engine load
\* C15: ffmpeg.load() is invoked at most once, however the calls overlap.  A
\* call that arrives while the load is pending or after it has settled starts
\* no load; a call waiting for the load goes on only when it has settled, to
\* writeFile if there is an instance.
C15_LoadOnce ==
    [][/\ loadCount' <= 1
       /\ \A c \in Slots :
            /\ (/\ calls'[c].serial # calls[c].serial
                /\ calls'[c].route = "engine"
                /\ (ffmpegInstance \/ ffmpegLoading # "none")) =>
                   /\ loadCount' = loadCount
                   /\ ffmpegLoading' = ffmpegLoading
                   /\ ~Issued(calls'[c], "load")
                   /\ calls'[c].pc = "getFFmpeg"
            /\ (calls[c].pc = "getFFmpeg" /\ calls'[c].pc # "getFFmpeg") =>
                   /\ ffmpegLoading # "pending"
                   /\ (calls'[c].pc = "writeFile") <=> ffmpegInstance]_vars

\* two calls wait for the one load that is pending
C15_Witness ==
    /\ ffmpegLoading = "pending"
    /\ loadCount = 1
    /\ \A c \in Slots : calls[c].pc = "getFFmpeg"

\* ------------------------------------------------ claims: sync loop, continued
\* the steps that stop playback
StopOps == {"pause", "ended", "unmount"}

\* C16: a stop (pause, ended, unmount) leaves no tick scheduled and, while the
\* component is mounted, playing false; a tick is scheduled anew only by the
\* step that turns playing true; and a tick runs (and writes to the audio
\* element) only when one was scheduled, with playing true.
C16_Teardown ==
    [][/\ last'.op \in StopOps => (~rafRef' /\ (mounted' => ~playing'))
       /\ (~rafRef /\ rafRef') => (~playing /\ playing')
       /\ last'.op = "tick" => (rafRef /\ playing /\ mounted)]_vars

\* playback has been paused after a tick had nudged the audio rate, and no
\* tick is scheduled
C16_Witness ==
    /\ last.op = "pause"
    /\ mounted
    /\ ~rafRef
    /\ aRate # ElemRate(playbackRate)

\* the drift a tick reads: a.currentTime - (v.currentTime - offsetSec)
Drift == audioTime - (videoTime - offsetSec)

\* C17, as claimed: a tick on a drift of at most 0.15 s leaves the audio
\* position alone and the audio rate equal to playbackRate.
C17_RatePinned ==
    [][(last'.op = "tick" /\ Abs(Drift) <= DriftThreshold) =>
         /\ audioTime' = audioTime
         /\ aRate' = ElemRate(playbackRate)]_vars

\* C17, amended: a tick on a drift of at most 0.15 s leaves the audio position
\* alone and writes the audio rate clamp(1 - 0.25 * drift, 0.95, 1.05) *
\* playbackRate.
C17_RateNudged ==
    [][(last'.op = "tick" /\ Abs(Drift) <= DriftThreshold) =>
         /\ audioTime' = audioTime
         /\ last'.seeks = NoSeeks
         /\ aRate' = Max(NudgeMin, Min(NudgeMax, NudgeScale - Drift)) * playbackRate]_vars

\* a tick has just run on a drift of 0.15 s and has slowed the audio down
C17_Witness ==
    /\ last.op = "tick"
    /\ last.seeks = NoSeeks
    /\ Drift = DriftThreshold
    /\ aRate < ElemRate(playbackRate)

\* C18, as claimed: after a tick that has issued a corrective seek the audio
\* rate equals playbackRate.
C18_RateReset ==
    [][(last'.op = "tick" /\ last'.seeks # NoSeeks) =>
         aRate' = ElemRate(playbackRate')]_vars

\* C18, amended: a tick that issues a corrective seek does not write the audio
\* rate, which keeps the value it had before the tick.
C18_RateKept ==
    [][(last'.op = "tick" /\ Abs(Drift) > DriftThreshold) =>
         /\ last'.seeks # NoSeeks
         /\ aRate' = aRate]_vars

\* a tick has just issued a corrective seek, and the audio rate is still the
\* one an earlier tick had adjusted
C18_Witness ==
    /\ last.op = "tick"
    /\ last.seeks # NoSeeks
    /\ aRate # ElemRate(playbackRate)

\* the seek a step has issued was rejected by the element
Rejected(step) == step.seeks # NoSeeks /\ ~step.seeks[1].ok

\* C19, as claimed: the tick that follows a rejected seek issues that seek
\* again, to the same target.
C19_RetryOnce ==
    [][(Rejected(last) /\ last'.op = "tick") =>
         /\ last'.seeks # NoSeeks
         /\ last'.seeks[1].target = last.seeks[1].target]_vars

\* C19, amended: a rejected seek is dropped at once.  It leaves the audio
\* position and the error shown where they were and schedules nothing; the tick
\* that follows it acts as any tick does, on the drift it reads: no seek for a
\* drift of at most 0.15 s, and otherwise a seek to the target computed from
\* the positions of that moment.
C19_Dropped ==
    [][/\ Rejected(last') =>
            /\ audioTime' = audioTime
            /\ exportError' = exportError
            /\ rafRef' => (rafRef \/ (~playing /\ playing'))
       /\ (Rejected(last) /\ last'.op = "tick") =>
            /\ last'.seeks # NoSeeks <=> Abs(Drift) > DriftThreshold
            /\ last'.seeks # NoSeeks =>
                  last'.seeks[1].target =
                      clamp(videoTime - offsetSec, 0, durationOrInfinity(duration))]_vars

\* a seek has been rejected while playback is stopped: the audio is not at
\* the target and no tick is scheduled
C19_Witness ==
    /\ Rejected(last)
    /\ ~rafRef
    /\ ~playing
    /\ audioTime # ElementPosition(last.seeks[1].target, duration)

\* ------------------------------------------ claims: export filters, continued
\* the 0.5 and 2.0 operations a chain starts with
LoopTempos(chain) == SelectSeq(chain, IsLoopTempo)

\* C20, as claimed: for a rate in [0.1, 2.0] the chain holds at most two 0.5
\* or 2.0 operations.
C20_AtMostTwo ==
    (probe.fn = "exportAtempo" /\ probe.arg \in RateMin..RateMax) =>
        Len(LoopTempos(probe.out)) <= 2

\* C20, amended: the rate that reaches buildAtempoFilters is positive, the
\* loops end after the least number k of rounds that brings the rate into
\* [0.5, 2.0] (k halvings with rate * 2^k >= 0.5, or k doublings with
\* rate <= 2.0 * 2^k), and k is at most 3 for a rate in [0.1, 2.0].
C20_Terminates ==
    probe.fn = "exportAtempo" =>
        LET r == clampRate(probe.arg)
            loops == LoopTempos(probe.out)
            k == Len(loops)
        IN /\ r > 0
           /\ \/ /\ \A i \in DOMAIN loops : loops[i].tempo = 500
                 /\ r * 2^k >= 5000
                 /\ r <= 20000
                 /\ k > 0 => r * 2^(k - 1) < 5000
              \/ /\ \A i \in DOMAIN loops : loops[i].tempo = 2000
                 /\ r <= 20000 * 2^k
                 /\ r >= 5000
                 /\ k > 0 => r > 20000 * 2^(k - 1)
           /\ probe.arg \in RateMin..RateMax => k <= 3

\* a rate of the range, below 0.125, has taken three 0.5 operations
C20_Witness ==
    /\ probe.fn = "exportAtempo"
    /\ probe.arg \in RateMin..RateMax
    /\ Len(LoopTempos(probe.out)) = 3

\* C21: the corrective actions write to the audio element only.  A step that
\* issues a seek leaves the video at the position the handler read; the video
\* position changes only by the video playing, by the user scrubbing it or by
\* a new source, never in a tick, an offset change or a start.
C21_VideoUntouched ==
    [][/\ last'.seeks # NoSeeks => videoTime' = last'.seeks[1].videoTime
       /\ videoTime' # videoTime =>
             last'.op \in {"advance", "seeked", "onPickFile", "loadedmetadata"}
       /\ last'.op \in {"tick", "offsetChange", "setPlaying", "play",
                        "startFromVideo"} => videoTime' = videoTime]_vars

\* the video has been scrubbed with a non-zero offset: the audio has been
\* moved to its target, away from the video position, which is the one the
\* handler read
C21_Witness ==
    /\ last.op = "seeked"
    /\ last.seeks[1].ok
    /\ offsetSec # 0
    /\ audioTime = ElementPosition(last.seeks[1].target, duration)
    /\ audioTime # videoTime
    /\ videoTime = last.seeks[1].videoTime

\* ----------------------------------------------------- claims: the start
\* the initial seek of a start handler
IsStartSeek(s) == s.by \in {"play", "startFromVideo"}

C23_CacheOnSuccess ==
    [][/\ \A c \in Slots :
            (calls'[c].serial # calls[c].serial /\ calls'[c].serial # 0
             /\ ~isTrivial(calls'[c].req)) =>
                /\ (calls'[c].route = "cache") <=>
                       (cacheKey(calls'[c].req) \in DOMAIN exportCache)
                /\ calls'[c].route = "cache" => calls'[c].ops = <<>>
                /\ calls'[c].route = "engine" => exportCache' = exportCache
       /\ exportCache' # exportCache =>
             \E c \in Slots :
                 /\ calls[c].pc = "readFile"
                 /\ calls'[c].pc = "deleteInput"
                 /\ Issued(calls[c], "exec")
                 /\ Issued(calls[c], "readFile")
                 /\ exportCache' = (cacheKey(calls[c].req) :> calls[c].serial) @@ exportCache
       /\ \A c \in Slots :
            calls'[c].result.kind = "error" =>
                /\ \A k \in DOMAIN exportCache' : exportCache'[k] # calls'[c].serial
                /\ calls[c].serial = calls'[c].serial => exportCache' = exportCache]_vars

\* a call has failed at readFile after an earlier one had filled the cache,
\* and its key is not in the cache
C23_Witness ==
    \E c \in Slots :
        /\ calls[c].result.kind = "error"
        /\ calls[c].result.error = "read"
        /\ DOMAIN exportCache # {}
        /\ cacheKey(calls[c].req) \notin DOMAIN exportCache

\* ---------------------------------------------------- claims: rate writes
\* C24: every rate a tick writes to the audio element lies within
\* [0.95, 1.05] x playbackRate, and every write to the rate of the video
\* element writes playbackRate itself.
C24_RateWrites ==
    [][/\ (last'.op = "tick" /\ last'.seeks = NoSeeks) =>
             /\ aRate' >= NudgeMin * playbackRate
             /\ aRate' <= NudgeMax * playbackRate
       /\ vRate' # vRate => vRate' = ElemRate(playbackRate')]_vars

\* ------------------------------------------------- claims: export, progress
\* C25: a progress event that the engine emits during the exec of a call is
\* handed to the onProgress of that call.
C25_ProgressToCaller ==
    delivered # NoDelivery => delivered.to = delivered.during

\* --------------------------------------------- claims: export, a failed load
\* C26: once the one-time load of the engine has failed (the runtime was
\* missing, or load() rejected), the failure stays: no step starts a load
\* again or brings an instance, and every call that asks for the engine from
\* then on issues no engine operation (no load, no writeFile, no exec), ends
\* with the load error and leaves the cache as it was.
C26_FailedLoadStays ==
    [][ffmpegLoading = "rejected" =>
          /\ ffmpegLoading' = "rejected"
          /\ ~ffmpegInstance'
          /\ loadCount' = loadCount
          /\ exportCache' = exportCache
          /\ \A c \in Slots :
               (calls'[c] # calls[c] /\ calls'[c].route = "engine") =>
                  /\ calls'[c].pc \in {"getFFmpeg", "settled"}
                  /\ calls'[c].pc = "settled" =>
                         calls'[c].result = ErrorResult("load")
                  /\ calls'[c].serial # calls[c].serial => calls'[c].ops = <<>>
                  /\ calls'[c].serial = calls[c].serial =>
                         calls'[c].ops = calls[c].ops]_vars

\* a call made after load() had rejected has ended with the load error,
\* without an engine operation of its own
C26_Witness ==
    \E c \in Slots :
        /\ calls[c].serial > 1
        /\ calls[c].route = "engine"
        /\ calls[c].pc = "settled"
        /\ calls[c].result = ErrorResult("load")
        /\ calls[c].ops = <<>>
        /\ loadCount = 1
        /\ ffmpegLoading = "rejected"

====
